---- MODULE Spec2Model ----
(***************************************************************************)
(* A model of the discharge-summary service (src/main.py): the retrying    *)
(* synthesis call get_json_from_pdf_via_gemini, the record validator       *)
(* validate_json_data, and the two request handlers home and review with   *)
(* the session that connects them.                                         *)
(*                                                                         *)
(* Python strings on which the code computes (strip, upper, splitlines,    *)
(* strptime, "in") are sequences of one-character strings; None is the     *)
(* one-element sequence PyNone, which no string equals.  Dictionaries are  *)
(* functions whose DOMAIN is the set of keys present.                      *)
(***************************************************************************)
EXTENDS Integers, Sequences, FiniteSets, TLC

VARIABLES
    \* get_json_from_pdf_via_gemini
    pc,           \* "idle" | "loop" | "returned" | "raised"
    max_retries,  \* argument
    base_delay,   \* argument
    attempt,      \* the loop variable of line 111
    log,          \* outcome of every round trip made so far, in order
    sleeps,       \* duration of every time.sleep made so far, in order
    result,       \* what the call returned or raised
    \* validate_json_data
    vdata,        \* the mapping handed to the validator
    vres,         \* "none" | "ok" | the field named by the ValueError
    \* home / review
    session,      \* session['json_data'], or NoSession
    form,         \* request.form of the last review submission
    edited,       \* edited_data of the last review submission
    context,      \* rendering context of the last review submission
    response      \* the last request and its HTTP response

retryVars == <<pc, max_retries, base_delay, attempt, log, sleeps, result>>
validVars == <<vdata, vres>>
webVars   == <<session, form, edited, context, response>>
vars      == <<pc, max_retries, base_delay, attempt, log, sleeps, result,
               vdata, vres, session, form, edited, context, response>>

(***************************************************************************)
(* Bounds                                                                  *)
(***************************************************************************)
MaxRetries  == 5     \* largest max_retries tried (the default is 5)
JitterSteps == 2     \* random.uniform(0,1) is sampled at k/JitterSteps
MaxDiag     == 3     \* most lines in a submitted Diagnosis text
MaxRows     == 12    \* most medication rows in a submitted form

(***************************************************************************)
(* Python values                                                           *)
(***************************************************************************)
PyNone == <<"None">>
Empty  == <<>>
NA     == <<"N","/","A">>

\* dict.get(key, default)
Get(d, k, default) == IF k \in DOMAIN d THEN d[k] ELSE default

\* bool(v) for v a string or None
Truthy(v) == v # PyNone /\ v # Empty

\* b ** n
RECURSIVE Pow(_, _)
Pow(b, n) == IF n = 0 THEN 1 ELSE b * Pow(b, n - 1)

(***************************************************************************)
(* get_json_from_pdf_via_gemini                                            *)
(***************************************************************************)
BaseDelays   == {1, 2}
SynthRecords == {"record_a", "record_b"}

\* What one requests.post round trip can meet.
Responses ==
    {[net |-> "timeout", status |-> 0,   text |-> "none"],
     [net |-> "ok",      status |-> 503, text |-> "none"],
     [net |-> "ok",      status |-> 200, text |-> "nojson"],
     [net |-> "ok",      status |-> 200, text |-> "badjson"]}
    \cup {[net |-> "ok", status |-> 200, text |-> r] : r \in SynthRecords}

\* Lines 113-122: the body of the try block, for one response.
RoundTrip(resp) ==
    IF resp.net # "ok" THEN [ok |-> FALSE, val |-> "Timeout"]
    ELSE IF resp.status >= 400 THEN [ok |-> FALSE, val |-> "HTTPError"]
    ELSE IF resp.text = "nojson" THEN [ok |-> FALSE, val |-> "AttributeError"]
    ELSE IF resp.text = "badjson" THEN [ok |-> FALSE, val |-> "JSONDecodeError"]
    ELSE [ok |-> TRUE, val |-> resp.text]

\* Lines 43-49: what precedes the loop.
PreLoop(hasKey, pdfReadable) ==
    IF ~hasKey THEN "RuntimeError"
    ELSE IF ~pdfReadable THEN "ExtractionError"
    ELSE "ok"

ShouldRetry_Never(att, maxr) == att < maxr
ShouldRetry_Early(att, maxr) == att < maxr - 2

\* Line 125
ShouldRetry(att, maxr) == att < maxr - 1

SleepTime_Paren(bd, att, jitter) == Pow(bd * 2, att) * JitterSteps + jitter

\* Line 127, in units of 1/JitterSteps second; jitter \in 0..JitterSteps-1
SleepTime(bd, att, jitter) == (bd * Pow(2, att)) * JitterSteps + jitter

NoResult == [kind |-> "none", val |-> "none", at |-> -1]

Call(maxr, bd, hasKey, pdfReadable) ==
    /\ pc = "idle"
    /\ max_retries' = maxr
    /\ base_delay' = bd
    /\ attempt' = 0
    /\ log' = <<>>
    /\ sleeps' = <<>>
    /\ IF PreLoop(hasKey, pdfReadable) = "ok"
       THEN /\ pc' = "loop"
            /\ result' = NoResult
       ELSE /\ pc' = "raised"
            /\ result' = [kind |-> "raise",
                          val |-> PreLoop(hasKey, pdfReadable), at |-> -1]
    /\ UNCHANGED <<validVars, webVars>>

\* The round trip succeeds: line 122 returns.
AttemptReturn(resp) ==
    /\ pc = "loop"
    /\ attempt < max_retries
    /\ RoundTrip(resp).ok
    /\ log' = Append(log, RoundTrip(resp))
    /\ result' = [kind |-> "return", val |-> RoundTrip(resp).val, at |-> attempt]
    /\ pc' = "returned"
    /\ UNCHANGED <<max_retries, base_delay, attempt, sleeps, validVars, webVars>>

\* The round trip fails and lines 125-130 sleep and continue.
AttemptRetry(resp, jitter) ==
    /\ pc = "loop"
    /\ attempt < max_retries
    /\ ~RoundTrip(resp).ok
    /\ ShouldRetry(attempt, max_retries)
    /\ log' = Append(log, RoundTrip(resp))
    /\ sleeps' = Append(sleeps, SleepTime(base_delay, attempt, jitter))
    /\ attempt' = attempt + 1
    /\ UNCHANGED <<pc, max_retries, base_delay, result, validVars, webVars>>

\* The round trip fails and line 131 re-raises.
AttemptRaise(resp) ==
    /\ pc = "loop"
    /\ attempt < max_retries
    /\ ~RoundTrip(resp).ok
    /\ ~ShouldRetry(attempt, max_retries)
    /\ log' = Append(log, RoundTrip(resp))
    /\ result' = [kind |-> "raise", val |-> RoundTrip(resp).val, at |-> attempt]
    /\ pc' = "raised"
    /\ UNCHANGED <<max_retries, base_delay, attempt, sleeps, validVars, webVars>>

\* range(max_retries) is exhausted: the function falls off its end.
LoopExit ==
    /\ pc = "loop"
    /\ attempt >= max_retries
    /\ result' = [kind |-> "return", val |-> "None", at |-> -1]
    /\ pc' = "returned"
    /\ UNCHANGED <<max_retries, base_delay, attempt, log, sleeps, validVars, webVars>>

(***************************************************************************)
(* validate_json_data                                                      *)
(***************************************************************************)
required_fields == <<"name", "age/gender", "admission_date", "discharge_date">>

RequiredSet == {required_fields[i] : i \in 1..Len(required_fields)}

FieldMissing_KeyOnly(data, field) == field \notin DOMAIN data

\* Line 147: not data.get(field)
FieldMissing(data, field) == ~Truthy(Get(data, field, PyNone))

\* Lines 146-149, from the i-th required field on: "ok" or the field raised.
RECURSIVE ValidateFrom(_, _)
ValidateFrom(data, i) ==
    IF i > Len(required_fields) THEN "ok"
    ELSE IF FieldMissing(data, required_fields[i]) THEN required_fields[i]
    ELSE ValidateFrom(data, i + 1)

validate_json_data(data) == ValidateFrom(data, 1)

\* The mappings tried: each required field absent, "", None or a name,
\* with or without a field the validator does not look at.
FieldValues == {Empty, PyNone, <<"v">>, NA}

VRecords ==
    UNION {[ks -> FieldValues] : ks \in SUBSET (RequiredSet \cup {"ward"})}

Validate(data) ==
    /\ vres = "none"
    /\ vdata' = data
    /\ vres' = validate_json_data(data)
    /\ UNCHANGED <<retryVars, webVars>>

(***************************************************************************)
(* String operations                                                       *)
(***************************************************************************)
LowerChars == <<"a","b","c","d","e","f","g","h","i","j","k","l","m","n","o","p","q","r","s","t","u","v","w","x","y","z">>
UpperChars == <<"A","B","C","D","E","F","G","H","I","J","K","L","M","N","O","P","Q","R","S","T","U","V","W","X","Y","Z">>
Digits     == <<"0","1","2","3","4","5","6","7","8","9">>
Whitespace == {" ", "\t", "\n", "\r"}
LineBreaks == {"\n", "\r"}

IndexIn(c, alphabet) == CHOOSE i \in 1..Len(alphabet) : alphabet[i] = c
IsIn(c, alphabet)    == \E i \in 1..Len(alphabet) : alphabet[i] = c
IsLetter(c)          == IsIn(c, LowerChars) \/ IsIn(c, UpperChars)

UpperChar(c) == IF IsIn(c, LowerChars) THEN UpperChars[IndexIn(c, LowerChars)] ELSE c
LowerChar(c) == IF IsIn(c, UpperChars) THEN LowerChars[IndexIn(c, UpperChars)] ELSE c

\* str.upper()
Upper(s) == [i \in 1..Len(s) |-> UpperChar(s[i])]

\* str.title()
Title(s) ==
    [i \in 1..Len(s) |->
        IF i = 1 \/ ~IsLetter(s[i - 1]) THEN UpperChar(s[i]) ELSE LowerChar(s[i])]

\* str.strip()
RECURSIVE LStrip(_)
LStrip(s) == IF s # <<>> /\ Head(s) \in Whitespace THEN LStrip(Tail(s)) ELSE s

RECURSIVE RStrip(_)
RStrip(s) ==
    IF s # <<>> /\ s[Len(s)] \in Whitespace THEN RStrip(SubSeq(s, 1, Len(s) - 1)) ELSE s

Strip(s) == RStrip(LStrip(s))

\* needle in hay
Contains(hay, needle) ==
    \E i \in 0..(Len(hay) - Len(needle)) : SubSeq(hay, i + 1, i + Len(needle)) = needle

\* The places where s is cut: before its first character, at every character
\* of seps, and after its last character.
SplitCuts(s, seps) == {0, Len(s) + 1} \cup {i \in 1..Len(s) : s[i] \in seps}

\* The k-th cut, counted from 0
CutAt(cuts, k) == CHOOSE c \in cuts : Cardinality({x \in cuts : x < c}) = k

\* The pieces of s between the characters of seps (str.split / str.splitlines;
\* a trailing empty piece is kept, which no caller here can tell apart).
Split(s, seps) ==
    [k \in 1..(Cardinality(SplitCuts(s, seps)) - 1) |->
        SubSeq(s, CutAt(SplitCuts(s, seps), k - 1) + 1, CutAt(SplitCuts(s, seps), k) - 1)]

\* sep.join(list)
RECURSIVE Join(_, _)
Join(list, sep) ==
    IF list = <<>> THEN <<>>
    ELSE IF Len(list) = 1 THEN list[1]
    ELSE list[1] \o sep \o Join(Tail(list), sep)

\* list(dict.fromkeys(list))
RECURSIVE DedupFrom(_, _)
DedupFrom(list, acc) ==
    IF list = <<>> THEN acc
    ELSE IF \E i \in 1..Len(acc) : acc[i] = Head(list) THEN DedupFrom(Tail(list), acc)
    ELSE DedupFrom(Tail(list), Append(acc, Head(list)))

Dedup(list) == DedupFrom(list, <<>>)

NonEmptyStr(s) == s # <<>>

\* Lines 140-141; text is a string or None
parse_multiline(text) ==
    LET lines == Split(IF Truthy(text) THEN text ELSE Empty, LineBreaks)
    IN  SelectSeq([i \in 1..Len(lines) |-> Strip(lines[i])], NonEmptyStr)

\* Lines 134-137, for a list of strings
format_multiline_field(content) ==
    IF content = <<>> THEN Empty ELSE Join(content, <<"\n">>)

(***************************************************************************)
(* datetime.strptime(s, "%Y-%m-%d").strftime("%d-%b-%Y")                   *)
(***************************************************************************)
AllDigits(s) == \A i \in 1..Len(s) : IsIn(s[i], Digits)

DigitVal(c) == IndexIn(c, Digits) - 1

RECURSIVE NumVal(_)
NumVal(s) == IF s = <<>> THEN 0 ELSE 10 * NumVal(SubSeq(s, 1, Len(s) - 1)) + DigitVal(s[Len(s)])

\* %m : 1[0-2]|0[1-9]|[1-9]
MonthText(s) ==
    /\ Len(s) \in {1, 2}
    /\ AllDigits(s)
    /\ NumVal(s) \in 1..12
    /\ Len(s) = 1 => s[1] # "0"

\* %d : 3[01]|[12]\d|0[1-9]|[1-9]| [1-9]
DayText(s) ==
    \/ /\ Len(s) \in {1, 2}
       /\ AllDigits(s)
       /\ NumVal(s) \in 1..31
    \/ /\ Len(s) = 2
       /\ s[1] = " "
       /\ IsIn(s[2], Digits)
       /\ s[2] # "0"

IsLeap(y) == (y % 4 = 0 /\ y % 100 # 0) \/ y % 400 = 0

DaysIn(y, m) ==
    IF m = 2 THEN (IF IsLeap(y) THEN 29 ELSE 28)
    ELSE IF m \in {4, 6, 9, 11} THEN 30 ELSE 31

MonthAbbr ==
    << <<"J","a","n">>,
       <<"F","e","b">>,
       <<"M","a","r">>,
       <<"A","p","r">>,
       <<"M","a","y">>,
       <<"J","u","n">>,
       <<"J","u","l">>,
       <<"A","u","g">>,
       <<"S","e","p">>,
       <<"O","c","t">>,
       <<"N","o","v">>,
       <<"D","e","c">> >>

\* strptime: the date parsed, or ok = FALSE for a ValueError
ParseISO(s) ==
    LET parts == Split(s, {"-"})
    IN  IF /\ Len(parts) = 3
           /\ Len(parts[1]) = 4
           /\ AllDigits(parts[1])
           /\ MonthText(parts[2])
           /\ DayText(parts[3])
        THEN LET y == NumVal(parts[1])
                 m == NumVal(parts[2])
                 d == NumVal(LStrip(parts[3]))
             IN  IF y >= 1 /\ d <= DaysIn(y, m)
                 THEN [ok |-> TRUE, y |-> y, m |-> m, d |-> d]
                 ELSE [ok |-> FALSE, y |-> 0, m |-> 0, d |-> 0]
        ELSE [ok |-> FALSE, y |-> 0, m |-> 0, d |-> 0]

\* str(n)
RECURSIVE NumStr(_)
NumStr(n) == IF n < 10 THEN <<Digits[n + 1]>> ELSE NumStr(n \div 10) \o <<Digits[(n % 10) + 1]>>

\* strftime("%d-%b-%Y")
FormatDate(dt) ==
    (IF dt.d < 10 THEN <<"0">> ELSE <<>>) \o NumStr(dt.d) \o <<"-">>
        \o MonthAbbr[dt.m] \o <<"-">> \o NumStr(dt.y)

\* Lines 248-254: one try block around both conversions.  The pair
\* <<admit, discharge>> bound into the context.
ConvertDates(admission_date, discharge_date) ==
    IF Truthy(admission_date) /\ ~ParseISO(admission_date).ok
    THEN <<admission_date, discharge_date>>
    ELSE LET admit == IF Truthy(admission_date)
                      THEN FormatDate(ParseISO(admission_date)) ELSE admission_date
         IN  IF Truthy(discharge_date) /\ ~ParseISO(discharge_date).ok
             THEN <<admit, discharge_date>>
             ELSE <<admit, IF Truthy(discharge_date)
                           THEN FormatDate(ParseISO(discharge_date))
                           ELSE discharge_date>>

(***************************************************************************)
(* home and review                                                         *)
(***************************************************************************)
ADVICE == <<"A","D","V","I","C","E",":"," ","M","E","D","I","C","A","L"," ","M","A","N","A","G","E","M","E","N","T">>

identity_fields ==
    <<"umr", "name", "age/gender", "ad1", "ad2", "mob", "admision_number",
      "ward", "admission_date", "discharge_date">>

IdentitySet == {identity_fields[i] : i \in 1..Len(identity_fields)}

NoFlash == <<>>

Fresh == [req |-> "none", kind |-> "none", flash |-> NoFlash, data |-> <<>>]

\* Line 197: session.get('json_data') or {}
SessionData == IF session.set /\ session.data # <<>> THEN session.data ELSE <<>>

IdentityValue_FormWins(session_data, fields, k) ==
    IF k \in DOMAIN fields THEN fields[k] ELSE Get(session_data, k, NA)

IdentityValue_NoDefault(session_data, fields, k) == Get(session_data, k, PyNone)

\* Lines 200-209: an identity field of edited_data (the form is not read)
IdentityValue(session_data, fields, k) == Get(session_data, k, NA)

FormRows_All == 1..MaxRows

\* Line 230: range(1, 11)
FormRows == 1..10

\* Line 294 / 352: range(10), as slot numbers i + 1
Slots == 1..10

\* The fields TAB{i}_form, TAB{i}_name, DOSAGE{i}, FREQ{i}, TOM{i} of the form
RowAt(rows, i) == IF i \in 1..Len(rows) THEN rows[i] ELSE <<>>

\* Lines 231-232
FormVal(row) ==
    LET v == Get(row, "form", Empty) IN Upper(Strip(IF Truthy(v) THEN v ELSE Empty))

NameVal(row) == Strip(Get(row, "name", Empty))

\* Lines 234-239
MedOf(row) ==
    [form   |-> FormVal(row),
     name   |-> NameVal(row),
     dosage |-> Get(row, "dosage", NA),
     freq   |-> Get(row, "freq", NA),
     time   |-> Get(row, "time", NA)]

\* Lines 230-239: the medications collected from rows i..10
RECURSIVE CollectMeds(_, _)
CollectMeds(rows, i) ==
    IF i \notin FormRows THEN <<>>
    ELSE IF NameVal(RowAt(rows, i)) # Empty
         THEN <<MedOf(RowAt(rows, i))>> \o CollectMeds(rows, i + 1)
         ELSE CollectMeds(rows, i + 1)

HasAdvice_Exact(d) == d = ADVICE

\* Line 257: "ADVICE: MEDICAL MANAGEMENT" in d.upper()
HasAdvice(d) == Contains(Upper(d), ADVICE)

\* Lines 256-258
Diagnosis(list) ==
    LET diagnosis == Dedup(list)
    IN  IF \E i \in 1..Len(diagnosis) : HasAdvice(diagnosis[i])
        THEN diagnosis
        ELSE Append(diagnosis, ADVICE)

\* Lines 198-239
EditedData(f) ==
    [identity    |-> [k \in IdentitySet |-> IdentityValue(SessionData, f.fields, k)],
     Diagnosis   |-> parse_multiline(Get(f.fields, "Diagnosis", PyNone)),
     Medications |-> CollectMeds(f.rows, 1)]

\* Lines 351-357: slot i of the context
SlotMed(meds, i) == IF i <= Len(meds) THEN meds[i] ELSE <<>>

SlotTab(meds, i) ==
    Strip(Get(SlotMed(meds, i), "form", Empty) \o <<" ">>
              \o Get(SlotMed(meds, i), "name", Empty))

\* Lines 246-258, 323-357: the keys of the context that are computed
Context(ed) ==
    LET dates == ConvertDates(ed.identity["admission_date"], ed.identity["discharge_date"])
    IN  [name      |-> Title(ed.identity["name"]),
         ad1       |-> Title(ed.identity["ad1"]),
         ad2       |-> Title(ed.identity["ad2"]),
         ward      |-> Upper(ed.identity["ward"]),
         admit     |-> dates[1],
         discharge |-> dates[2],
         Diagnosis |-> format_multiline_field(Diagnosis(ed.Diagnosis)),
         TAB       |-> [i \in Slots |-> SlotTab(ed.Medications, i)],
         DOSAGE    |-> [i \in Slots |-> Get(SlotMed(ed.Medications, i), "dosage", NA)],
         FREQ      |-> [i \in Slots |-> Get(SlotMed(ed.Medications, i), "freq", NA)],
         TOM       |-> [i \in Slots |-> Get(SlotMed(ed.Medications, i), "time", NA)]]

\* .title() / .upper() on a value that is not a string (lines 325-331)
NotAString(ed) == \E k \in {"name", "ad1", "ad2", "ward"} : ed.identity[k] = PyNone

\* POST / (lines 154-177).  synth is what get_json_from_pdf_via_gemini did.
HomePost(hasPart, allowed, synth) ==
    /\ response = Fresh
    /\ IF ~hasPart
       THEN /\ response' = [req |-> "home_post", kind |-> "redirect_home", flash |-> <<"No file part">>, data |-> <<>>]
            /\ UNCHANGED session
       ELSE IF ~allowed
       THEN /\ response' = [req |-> "home_post", kind |-> "redirect_home", flash |-> <<"Invalid file">>, data |-> <<>>]
            /\ UNCHANGED session
       ELSE IF synth.ok
       THEN /\ session' = [set |-> TRUE, data |-> synth.val]
            /\ response' = [req |-> "home_post", kind |-> "redirect_review", flash |-> <<"PDF processed">>, data |-> <<>>]
       ELSE /\ response' = [req |-> "home_post", kind |-> "redirect_home", flash |-> <<"Error">>, data |-> <<>>]
            /\ UNCHANGED session
    /\ form' = <<>>
    /\ edited' = <<>>
    /\ context' = <<>>
    /\ UNCHANGED <<retryVars, validVars>>

\* GET /review (lines 185-190)
ReviewGet ==
    /\ response = Fresh
    /\ IF ~session.set \/ session.data = <<>>
       THEN response' = [req |-> "review_get", kind |-> "redirect_home", flash |-> <<"No data to review">>, data |-> <<>>]
       ELSE response' = [req |-> "review_get", kind |-> "edit_form", flash |-> NoFlash, data |-> session.data]
    /\ form' = <<>>
    /\ edited' = <<>>
    /\ context' = <<>>
    /\ UNCHANGED <<session, retryVars, validVars>>

\* POST /review (lines 193-377).  template is what DocxTemplate meets:
\* "ok", "missing" (line 243 raises) or "broken" (line 360 raises).
ReviewPost(f, template) ==
    /\ response = Fresh
    /\ form' = f
    /\ edited' = EditedData(f)
    /\ IF validate_json_data(edited'.identity) # "ok"
       THEN /\ response' = [req |-> "review_post", kind |-> "redirect_review",
                            flash |-> <<"Missing required field",
                                        validate_json_data(edited'.identity)>>,
                            data |-> <<>>]
            /\ context' = <<>>
       ELSE IF template = "missing"
       THEN /\ response' = [req |-> "review_post", kind |-> "redirect_review",
                            flash |-> <<"template">>, data |-> <<>>]
            /\ context' = <<>>
       ELSE IF NotAString(edited')
       THEN /\ response' = [req |-> "review_post", kind |-> "redirect_review",
                            flash |-> <<"AttributeError">>, data |-> <<>>]
            /\ context' = <<>>
       ELSE IF template = "broken"
       THEN /\ response' = [req |-> "review_post", kind |-> "redirect_review",
                            flash |-> <<"render">>, data |-> <<>>]
            /\ context' = Context(edited')
       ELSE /\ response' = [req |-> "review_post", kind |-> "file",
                            flash |-> <<"Document generated">>, data |-> <<>>]
            /\ context' = Context(edited')
    /\ UNCHANGED <<session, retryVars, validVars>>

\* The browser receives the response; the request and its locals are gone,
\* the session stays.
Deliver ==
    /\ response # Fresh
    /\ response' = Fresh
    /\ form' = <<>>
    /\ edited' = <<>>
    /\ context' = <<>>
    /\ UNCHANGED <<session, retryVars, validVars>>

(***************************************************************************)
(* Requests tried                                                          *)
(***************************************************************************)
Templates == {"ok", "missing", "broken"}

\* A synthesized record with every identity field set.
FullRecord ==
    [k \in IdentitySet |->
        CASE k = "name"           -> <<"j","o","h","n"," ","d","o","e">>
          [] k = "age/gender"     -> <<"5","4","/","M">>
          [] k = "ward"           -> <<"i","c","u">>
          [] k = "admission_date" -> <<"2","0","2","4","-","0","1","-","0","5">>
          [] k = "discharge_date" -> <<"2","0","2","4","-","0","1","-","0","9">>
          [] OTHER                -> <<"x">>]

\* One medication row, as the review page submits it.
ParacetamolRow ==
    [form |-> <<"T","a","b">>, name |-> <<"P","a","r","a","c","e","t","a","m","o","l">>, dosage |-> <<"5">>, freq |-> <<"1">>, time |-> <<"8">>]

PlainForm == [fields |-> [Diagnosis |-> <<"X">>], rows |-> <<ParacetamolRow>>]

SynthFailed == [ok |-> FALSE, val |-> <<>>]

\* Diagnosis texts: up to MaxDiag lines, each one of DiagLines.
DiagLines ==
    {<<"X">>, <<" ","X"," ">>, ADVICE,
     <<"A","D","V","I","C","E",":"," ","M","E","D","I","C","A","L">>,
     <<"s","e","e"," ","A","d","v","i","c","e",":"," ","M","e","d","i","c","a","l"," ","M","a","n","a","g","e","m","e","n","t">>}

DiagTexts ==
    UNION {{Join(ls, <<"\n">>) : ls \in [1..n -> DiagLines]} : n \in 0..MaxDiag}

DiagForms ==
    {[fields |-> [Diagnosis |-> text], rows |-> <<ParacetamolRow>>] : text \in DiagTexts}
    \cup {[fields |-> <<>>, rows |-> <<ParacetamolRow>>]}

\* Medication rows: n rows, those in blank without a name, the others named.
NamedRow(i) ==
    LET nm == IF i = 1 THEN <<"P","a","r","a","c","e","t","a","m","o","l">> ELSE <<" ", "m">> \o NumStr(i) \o <<" ">>
    IN  CASE i % 4 = 1 -> [form |-> <<"T","a","b">>, name |-> nm, dosage |-> <<"5">>,
                           freq |-> <<"1">>, time |-> <<"8">>]
          [] i % 4 = 2 -> [form |-> <<" ","c","a","p","\t">>, name |-> nm, freq |-> <<"2">>]
          [] i % 4 = 3 -> [name |-> nm, dosage |-> <<>>]
          [] OTHER     -> [form |-> <<>>, name |-> nm, time |-> <<"9">>]

BlankRow(i) ==
    IF i % 2 = 0 THEN [form |-> <<"T","a","b">>, name |-> <<" ", " ">>, dosage |-> <<"7">>]
    ELSE [form |-> <<"i","n","j">>]

MedRows ==
    UNION {{[i \in 1..n |-> IF i \in blank THEN BlankRow(i) ELSE NamedRow(i)] :
                blank \in {b \in SUBSET (1..n) : Cardinality(b) <= 2} \cup {1..n}} :
           n \in 0..MaxRows}

MedForms == {[fields |-> [Diagnosis |-> <<"X">>], rows |-> rows] : rows \in MedRows}

\* Dates a synthesized record can carry.
DateValues ==
    {<<"2","0","2","4","-","0","1","-","0","5">>, <<"2","0","2","3","-","1","2","-","3","1">>, <<"2","0","2","4","-","0","2","-","2","9">>, <<"2","0","2","3","-","0","2","-","2","9">>, <<"n","o","t","-","a","-","d","a","t","e">>,
     <<"2","0","2","4","-","1","-","5">>, NA, Empty, PyNone}

DateRecords ==
    UNION {{[k \in IdentitySet \ absent |->
                IF k = "admission_date" THEN a
                ELSE IF k = "discharge_date" THEN d ELSE FullRecord[k]] :
                a \in DateValues, d \in DateValues} :
           absent \in SUBSET {"admission_date", "discharge_date"}}

\* Records in which up to two required fields are absent, "" or None, and
\* the other identity fields are all set, all absent, or set with a null ward.
Deviations(ks) == [ks -> {"absent", "empty", "null"}]

IdentityRecords ==
    UNION {UNION {{[k \in (IF others = "none" THEN RequiredSet ELSE IdentitySet)
                          \ {q \in ks : dev[q] = "absent"} |->
                      IF k \in ks THEN (IF dev[k] = "empty" THEN Empty ELSE PyNone)
                      ELSE IF k = "ward" /\ others = "nullward" THEN PyNone
                      ELSE FullRecord[k]] :
                   dev \in Deviations(ks)} :
               ks \in {q \in SUBSET RequiredSet : Cardinality(q) <= 2}} :
           others \in {"all", "none", "nullward"}}

\* Forms that also carry fields named like identity fields.
IdentityForms ==
    {PlainForm,
     [fields |-> [k \in IdentitySet \cup {"Diagnosis"} |-> <<"f">>], rows |-> <<>>],
     [fields |-> [Diagnosis |-> <<"X">>, name |-> <<"m","a","l","l","o","r","y">>], rows |-> <<ParacetamolRow>>]}

Upload(records) ==
    \/ \E r \in records : HomePost(TRUE, TRUE, [ok |-> TRUE, val |-> r])
    \/ \E hasPart \in BOOLEAN, allowed \in BOOLEAN : HomePost(hasPart, allowed, SynthFailed)

(***************************************************************************)
(* Specifications                                                          *)
(***************************************************************************)
NoSession == [set |-> FALSE, data |-> <<>>]

Init ==
    /\ pc = "idle"
    /\ max_retries = 0
    /\ base_delay = 0
    /\ attempt = 0
    /\ log = <<>>
    /\ sleeps = <<>>
    /\ result = NoResult
    /\ vdata = <<>>
    /\ vres = "none"
    /\ session = NoSession
    /\ form = <<>>
    /\ edited = <<>>
    /\ context = <<>>
    /\ response = Fresh
NextRetry ==
    \/ \E maxr \in 0..MaxRetries, bd \in BaseDelays, hasKey \in BOOLEAN,
          pdfReadable \in BOOLEAN : Call(maxr, bd, hasKey, pdfReadable)
    \/ \E resp \in Responses : AttemptReturn(resp)
    \/ \E resp \in Responses, jitter \in 0..(JitterSteps - 1) :
          AttemptRetry(resp, jitter)
    \/ \E resp \in Responses : AttemptRaise(resp)
    \/ LoopExit

SpecRetry == Init /\ [][NextRetry]_vars

NextValidate == \E data \in VRecords : Validate(data)

SpecValidate == Init /\ [][NextValidate]_vars

NextDiag ==
    \/ Upload({FullRecord})
    \/ ReviewGet
    \/ Deliver
    \/ \E f \in DiagForms, template \in Templates : ReviewPost(f, template)

SpecDiag == Init /\ [][NextDiag]_vars

NextMeds ==
    \/ Upload({FullRecord})
    \/ ReviewGet
    \/ Deliver
    \/ \E f \in MedForms, template \in Templates : ReviewPost(f, template)

SpecMeds == Init /\ [][NextMeds]_vars

NextDates ==
    \/ Upload(DateRecords)
    \/ ReviewGet
    \/ Deliver
    \/ \E template \in Templates : ReviewPost(PlainForm, template)

SpecDates == Init /\ [][NextDates]_vars

NextIdentity ==
    \/ Upload(IdentityRecords)
    \/ ReviewGet
    \/ Deliver
    \/ \E f \in IdentityForms, template \in Templates : ReviewPost(f, template)

SpecIdentity == Init /\ [][NextIdentity]_vars

(***************************************************************************)
(* Properties                                                              *)
(***************************************************************************)
AllFailed == Len(log) >= 1 /\ \A i \in 1..Len(log) : ~log[i].ok

\* C1: when every round trip fails and max_retries = N >= 1, the call makes
\* exactly N attempts and N-1 sleeps (none after the last attempt) and ends
\* by raising the error of the N-th attempt; it never returns a value.
C1_AlwaysFailing ==
    (max_retries >= 1 /\ AllFailed) =>
        /\ pc \in {"loop", "raised"}
        /\ pc = "loop" =>
              /\ Len(log) < max_retries
              /\ Len(sleeps) = Len(log)
        /\ pc = "raised" =>
              /\ Len(log) = max_retries
              /\ Len(sleeps) = max_retries - 1
              /\ result = [kind |-> "raise", val |-> log[max_retries].val,
                           at |-> max_retries - 1]

C1_Witness ==
    /\ pc = "raised"
    /\ AllFailed
    /\ max_retries = 3
    /\ log[1].val # log[3].val
    /\ result.val = log[3].val

\* C2: when the round trip fails k times and then succeeds (max_retries >=
\* k+1), exactly k+1 attempts are made, the record of attempt k+1 is
\* returned, and exactly k sleeps occur, the i-th of base_delay * 2^i plus a
\* jitter in [0,1); no sleep follows the successful attempt.
C2_FailsThenSucceeds ==
    (pc = "returned" /\ Len(log) >= 1 /\ log[Len(log)].ok) =>
        LET k == Len(log) - 1
        IN  /\ k + 1 <= max_retries
            /\ \A i \in 1..k : ~log[i].ok
            /\ result = [kind |-> "return", val |-> log[k + 1].val, at |-> k]
            /\ Len(sleeps) = k
            /\ \A i \in 0..(k - 1) :
                  sleeps[i + 1] - base_delay * Pow(2, i) * JitterSteps
                      \in 0..(JitterSteps - 1)

C2_Witness ==
    /\ pc = "returned"
    /\ Len(log) = 4
    /\ log[4].ok
    /\ base_delay = 2
    /\ Len(sleeps) = 3

FalsyIn(data, field) ==
    field \notin DOMAIN data \/ data[field] = Empty \/ data[field] = PyNone

\* C3: the validator fails naming the first of name, age/gender,
\* admission_date, discharge_date that is absent, "" or None, and succeeds
\* when all four are present and non-empty, whatever else the mapping holds.
C3_FirstMissingField ==
    vres # "none" =>
        LET falsy == {i \in 1..4 : FalsyIn(vdata, required_fields[i])}
        IN  IF falsy = {} THEN vres = "ok"
            ELSE vres = required_fields[CHOOSE i \in falsy : \A j \in falsy : i <= j]

C3_Witness ==
    /\ vres = "admission_date"
    /\ DOMAIN vdata = {"name", "age/gender", "admission_date"}
    /\ vdata["admission_date"] = PyNone

\* The review submission built a rendering context.
Rendered ==
    /\ response.req = "review_post"
    /\ response.flash \in {<<"Document generated">>, <<"render">>}

ContainsAdviceCI(e) ==
    \E i \in 0..(Len(e) - Len(ADVICE)) :
        \A j \in 1..Len(ADVICE) : UpperChar(e[i + j]) = ADVICE[j]

FirstIndex(list, e) == CHOOSE i \in 1..Len(list) : list[i] = e /\ \A j \in 1..(i - 1) : list[j] # e

\* d is list without its repeated entries, in first-seen order
IsFirstSeenDedup(d, list) ==
    /\ {d[i] : i \in 1..Len(d)} = {list[i] : i \in 1..Len(list)}
    /\ \A i, j \in 1..Len(d) : i < j => FirstIndex(list, d[i]) < FirstIndex(list, d[j])

\* C4: the rendered diagnosis is the edited Diagnosis list de-duplicated in
\* first-seen order, followed by "ADVICE: MEDICAL MANAGEMENT" exactly when
\* no entry contains that string case-insensitively; it always contains an
\* advice entry and has no duplicate entries.
C4_DiagnosisRendered ==
    Rendered =>
        LET list     == edited.Diagnosis
            rendered == Split(context.Diagnosis, {"\n"})
            n        == Len(rendered)
            hasAdv   == \E i \in 1..Len(list) : ContainsAdviceCI(list[i])
        IN  /\ n >= 1
            /\ ~hasAdv => rendered[n] = ADVICE
            /\ IsFirstSeenDedup(IF hasAdv THEN rendered ELSE SubSeq(rendered, 1, n - 1), list)
            /\ \A i, j \in 1..n : rendered[i] = rendered[j] => i = j
            /\ \E i \in 1..n : ContainsAdviceCI(rendered[i])

C4_Witness ==
    /\ response.kind = "file"
    /\ Len(edited.Diagnosis) = 3
    /\ edited.Diagnosis[1] = edited.Diagnosis[3]
    /\ edited.Diagnosis[1] # edited.Diagnosis[2]
    /\ context.Diagnosis = edited.Diagnosis[1] \o <<"\n">> \o edited.Diagnosis[2]
                               \o <<"\n">> \o ADVICE

HasName(row) == "name" \in DOMAIN row /\ Strip(row["name"]) # Empty

ExpectedTab(row) ==
    Strip((IF "form" \in DOMAIN row THEN Upper(Strip(row["form"])) ELSE Empty)
              \o <<" ">> \o Strip(row["name"]))

\* C5: for 0 to MaxRows medication rows the context defines TABi, DOSAGEi,
\* FREQi, TOMi for every i in 1..10 and no error is raised; with m retained
\* rows (trimmed name non-empty, row order, among the first ten rows) slot
\* i <= m holds "<FORM> <name>" trimmed with FORM upper-cased, every slot
\* i > m holds an empty TABi and "N/A" for dosage, frequency and time, and
\* rows beyond the tenth never populate a slot.
C5_MedicationSlots ==
    /\ (response.req = "review_post" /\ response.kind # "file")
           => response.flash \in {<<"template">>, <<"render">>}
    /\ Rendered =>
        LET rows == form.rows
            kept == SelectSeq(SubSeq(rows, 1, IF Len(rows) < 10 THEN Len(rows) ELSE 10),
                              HasName)
        IN  /\ DOMAIN context.TAB = 1..10
            /\ DOMAIN context.DOSAGE = 1..10
            /\ DOMAIN context.FREQ = 1..10
            /\ DOMAIN context.TOM = 1..10
            /\ \A i \in 1..10 :
                  IF i <= Len(kept)
                  THEN context.TAB[i] = ExpectedTab(kept[i])
                  ELSE /\ context.TAB[i] = Empty
                       /\ context.DOSAGE[i] = NA
                       /\ context.FREQ[i] = NA
                       /\ context.TOM[i] = NA

C5_Witness ==
    /\ response.kind = "file"
    /\ Len(form.rows) = 12
    /\ context.TAB[1] = <<"T","A","B"," ","P","a","r","a","c","e","t","a","m","o","l">>
    /\ context.TAB[9] # Empty
    /\ context.TAB[10] = Empty

\* C6: every identity field of the edited record equals the value held in
\* the session record ("N/A" when the key is absent there), whatever the
\* submitted form contains.
C6_IdentityFromSession ==
    response.req = "review_post" =>
        \A k \in IdentitySet :
            edited.identity[k] =
                IF session.set /\ k \in DOMAIN session.data THEN session.data[k] ELSE NA

C6_Witness ==
    /\ response.req = "review_post"
    /\ session.set
    /\ "ad1" \notin DOMAIN session.data
    /\ "ad1" \in DOMAIN form.fields
    /\ "name" \in DOMAIN form.fields
    /\ form.fields["name"] # edited.identity["name"]
    /\ edited.identity["ad1"] = NA

\* C7 (as stated): once a review submission has generated a document, the
\* session no longer holds the record.
C7_DiscardedAfterGeneration ==
    response.kind = "file" => ~session.set

PreLoopErrors == {"RuntimeError", "ExtractionError"}

\* C8 (as stated): every extraction or synthesis error is raised only after
\* max_retries attempts.
C8_EveryErrorRetried ==
    (pc = "raised" /\ result.val # "RuntimeError") => Len(log) = max_retries

\* C8 (amended): an error of the round trip (timeout, non-success status, no
\* JSON object, malformed JSON) is raised only after max_retries attempts
\* and max_retries - 1 sleeps, and is the error of the last attempt; an
\* unreadable PDF or a missing credential is raised before the first
\* attempt, with no retry and no sleep.
C8_RoundTripErrorsRetried ==
    pc = "raised" =>
        IF result.val \in PreLoopErrors
        THEN /\ log = <<>>
             /\ sleeps = <<>>
             /\ result.at = -1
        ELSE /\ Len(log) = max_retries
             /\ Len(sleeps) = max_retries - 1
             /\ AllFailed
             /\ result = [kind |-> "raise", val |-> log[max_retries].val,
                          at |-> max_retries - 1]

C8_Witness ==
    /\ pc = "raised"
    /\ result.val = "ExtractionError"
    /\ max_retries = 5
    /\ log = <<>>

\* s is written YYYY-MM-DD and names a day of the calendar
IsISODate(s) == Len(s) = 10 /\ s[5] = "-" /\ s[8] = "-" /\ ParseISO(s).ok

\* One date converted on its own: rendered when ISO, unchanged when it fails
\* to parse.
ConvertedAlone(s, out) ==
    /\ IsISODate(s) => out = FormatDate(ParseISO(s))
    /\ ~ParseISO(s).ok => out = s

\* C9 (as stated): the admission date and the discharge date are each
\* converted on their own: a valid ISO date is rendered as DD-Mon-YYYY and one
\* that fails to parse is passed through unchanged, whatever the other is.
C9_DatesConvertedSeparately ==
    Rendered =>
        /\ ConvertedAlone(edited.identity["admission_date"], context.admit)
        /\ ConvertedAlone(edited.identity["discharge_date"], context.discharge)

MissingRequired ==
    /\ response.kind = "redirect_review"
    /\ response.flash[1] = "Missing required field"

\* C10 (as stated): a review submission made with no session record, or with
\* a session record from which a required key is absent, empty or null, fails
\* with "Missing required field" and produces no document.
C10_RequiresSessionRecord ==
    (/\ response.req = "review_post"
     /\ \/ ~session.set
        \/ \E k \in RequiredSet : FalsyIn(session.data, k))
        => MissingRequired

\* C10 (amended): a document is generated only when the four required fields
\* of the edited record are non-empty; a submission whose session record holds
\* a required key with an empty or null value fails with "Missing required
\* field"; a submission with no session record, or with required keys absent
\* and the rest non-empty, passes validation with "N/A" in their place.
C10_RequiresEditedRecord ==
    response.req = "review_post" =>
        /\ response.kind = "file" =>
              \A k \in RequiredSet : Truthy(edited.identity[k])
        /\ (session.set /\ \E k \in RequiredSet :
                k \in DOMAIN session.data /\ ~Truthy(session.data[k]))
              => MissingRequired
        /\ (~session.set \/ \A k \in RequiredSet :
                k \notin DOMAIN session.data \/ Truthy(session.data[k]))
              => /\ ~MissingRequired
                 /\ \A k \in RequiredSet \ DOMAIN session.data :
                       edited.identity[k] = NA

C10_Witness ==
    /\ response.kind = "file"
    /\ session.set
    /\ "name" \notin DOMAIN session.data
    /\ edited.identity["name"] = NA

====
